---------------------------- MODULE Spec2Model ----------------------------
(***************************************************************************)
(* Model of the interactive-eigenvector repository: the Matrix2D engine    *)
(* (src/app.js, with inverse/multiply as listed in src/README.md) and the  *)
(* DiagonalizationApp stager (src/unnamed/part_001).                       *)
(*                                                                         *)
(* Numbers.  The program computes in IEEE doubles.  The model computes in  *)
(* decimal fixed point: an integer n stands for the real n / Scale, and    *)
(* every product, quotient and square root is rounded to the nearest unit, *)
(* as a double operation is rounded to the nearest double.  The code's     *)
(* threshold 1e-10 lies below one unit, so |x| > 1e-10 is x # 0 and        *)
(* |x| < 1e-10 is x = 0 on these numbers.                                  *)
(***************************************************************************)
EXTENDS Integers, Sequences, FiniteSets, TLC

\* Units per 1: three decimal places.
Scale == 10 ^ 3

\* Matrix entries tried are the whole numbers -MaxEntry .. MaxEntry.
MaxEntry == 2

\* Eigenvalue arguments tried for eigenvector() are -MaxLambda .. MaxLambda.
MaxLambda == 2

\* Nearly singular matrices tried: {1.5, 1.5, 1, 1 + k/1000}, k in 1 .. MaxFine.
MaxFine == 1

----------------------------------------------------------------------------
(* Fixed-point arithmetic                                                  *)

Abs(x) == IF x < 0 THEN -x ELSE x

Sign(x) == IF x < 0 THEN -1 ELSE 1

\* n / d rounded to the nearest integer (d # 0).  The operands are bound
\* once, as nn and dd, so that a nested expression is evaluated a single time.
RoundDiv(n, d) ==
    CHOOSE r \in
        {Sign(nn) * Sign(dd) *
            ((Abs(nn) \div Abs(dd)) +
                (IF 2 * (Abs(nn) % Abs(dd)) >= Abs(dd) THEN 1 ELSE 0)) :
         nn \in {n}, dd \in {d}} : TRUE

Num(n) == n * Scale

Mul(x, y) == RoundDiv(x * y, Scale)

\* What JavaScript's x / 0 gives: NaN for 0 / 0, otherwise +-Infinity.  Both
\* stand outside the range of the numbers computed here.
Infinity == 2 ^ 30
NaN == -(2 ^ 30) - 1

IsInf(x) == x = Infinity \/ x = -Infinity

\* The largest finite number (Number.MAX_VALUE): a result beyond it is
\* +-Infinity.
MaxFinite == Num(10 ^ 3)

Overflow(x) ==
    CHOOSE r \in
        {IF xx > MaxFinite THEN Infinity
         ELSE IF xx < -MaxFinite THEN -Infinity
         ELSE xx : xx \in {x}} : TRUE

\* x * y and x + y where the operands can be of any size (x, y finite in
\* MulInf).  Mul and + are these for operands whose results stay finite.
MulInf(x, y) == Overflow(Mul(x, y))

AddInf(x, y) ==
    CHOOSE r \in
        {IF xx = NaN \/ yy = NaN THEN NaN
         ELSE IF IsInf(xx) /\ IsInf(yy) THEN IF xx = yy THEN xx ELSE NaN
         ELSE IF IsInf(xx) THEN xx
         ELSE IF IsInf(yy) THEN yy
         ELSE Overflow(xx + yy) : xx \in {x}, yy \in {y}} : TRUE

Div(x, y) ==
    CHOOSE r \in
        {IF xx = NaN \/ yy = NaN THEN NaN
         ELSE IF IsInf(yy) THEN IF IsInf(xx) THEN NaN ELSE 0
         ELSE IF IsInf(xx) THEN Sign(xx) * Sign(yy) * Infinity
         ELSE IF yy = 0
         THEN IF xx = 0 THEN NaN ELSE Sign(xx) * Infinity
         ELSE RoundDiv(xx * Scale, yy) : xx \in {x}, yy \in {y}} : TRUE

\* The largest r in lo .. hi with r * r <= n (lo * lo <= n).
RECURSIVE FloorRoot(_, _, _)
FloorRoot(n, lo, hi) ==
    IF lo >= hi THEN lo
    ELSE CHOOSE r \in
            {IF mid * mid <= n THEN FloorRoot(n, mid, hi)
                               ELSE FloorRoot(n, lo, mid - 1) :
             mid \in {(lo + hi + 1) \div 2}} : TRUE

\* Math.sqrt on a fixed-point number x >= 0, rounded to the nearest unit;
\* Math.sqrt(Infinity) is Infinity.
Sqrt(x) ==
    CHOOSE s \in
        {IF xx = Infinity
         THEN Infinity
         ELSE CHOOSE v \in
                {IF xx * Scale - r * r > r THEN r + 1 ELSE r :
                 r \in {FloorRoot(xx * Scale, 0,
                                  IF xx * Scale < 46340 THEN xx * Scale ELSE 46340)}} :
                TRUE :
         xx \in {x}} : TRUE

\* Math.abs(x) > 1e-10 and Math.abs(x) < 1e-10: 1e-10 is less than one unit.
AboveEpsilon(x) == Abs(x) >= 1
BelowEpsilon(x) == Abs(x) < 1

----------------------------------------------------------------------------
(* Matrix2D                                                                *)

\* The absent value (JavaScript null).
Null == [null |-> TRUE]

Matrix2D(a, b, c, d) == [a |-> a, b |-> b, c |-> c, d |-> d]

identity == Matrix2D(Num(1), 0, 0, Num(1))

\* The arguments are bound once, as x, y and s.
lerp(m1, m2, t) ==
    CHOOSE r \in
        {Matrix2D(x.a + Mul(y.a - x.a, s),
                  x.b + Mul(y.b - x.b, s),
                  x.c + Mul(y.c - x.c, s),
                  x.d + Mul(y.d - x.d, s)) :
         x \in {m1}, y \in {m2}, s \in {t}} : TRUE

transform(this, x, y) ==
    [x |-> Mul(this.a, x) + Mul(this.b, y),
     y |-> Mul(this.c, x) + Mul(this.d, y)]

determinant(this) == Mul(this.a, this.d) - Mul(this.b, this.c)

trace(this) == this.a + this.d

\* A slip in the discriminant: + 4 det for - 4 det.
discriminantPlus(this) == Mul(trace(this), trace(this)) + 4 * determinant(this)

discriminant(this) == Mul(trace(this), trace(this)) - 4 * determinant(this)

\* A slip in eigenvalues(): the two roots handed out in the other order.
eigenvaluesSwapped(this) ==
    LET tr == trace(this)
        disc == discriminant(this)
    IN  IF disc < 0
        THEN [lambda1 |-> [real |-> Div(tr, Num(2)), imag |-> Div(Sqrt(-disc), Num(2))],
              lambda2 |-> [real |-> Div(tr, Num(2)), imag |-> -Div(Sqrt(-disc), Num(2))],
              isComplex |-> TRUE]
        ELSE [lambda1 |-> [real |-> Div(tr - Sqrt(disc), Num(2)), imag |-> 0],
              lambda2 |-> [real |-> Div(tr + Sqrt(disc), Num(2)), imag |-> 0],
              isComplex |-> FALSE]

\* A slip in eigenvalues(): discriminant <= 0 for discriminant < 0.
eigenvaluesLeq(this) ==
    LET tr == trace(this)
        disc == discriminant(this)
    IN  IF disc <= 0
        THEN [lambda1 |-> [real |-> Div(tr, Num(2)), imag |-> Div(Sqrt(-disc), Num(2))],
              lambda2 |-> [real |-> Div(tr, Num(2)), imag |-> -Div(Sqrt(-disc), Num(2))],
              isComplex |-> TRUE]
        ELSE [lambda1 |-> [real |-> Div(tr + Sqrt(disc), Num(2)), imag |-> 0],
              lambda2 |-> [real |-> Div(tr - Sqrt(disc), Num(2)), imag |-> 0],
              isComplex |-> FALSE]

eigenvalues(this) ==
    LET tr == trace(this)
        disc == discriminant(this)
    IN  IF disc < 0
        THEN LET real == Div(tr, Num(2))
                 imag == Div(Sqrt(-disc), Num(2))
             IN  [lambda1 |-> [real |-> real, imag |-> imag],
                  lambda2 |-> [real |-> real, imag |-> -imag],
                  isComplex |-> TRUE]
        ELSE LET sqrtDisc == Sqrt(disc)
             IN  [lambda1 |-> [real |-> Div(tr + sqrtDisc, Num(2)), imag |-> 0],
                  lambda2 |-> [real |-> Div(tr - sqrtDisc, Num(2)), imag |-> 0],
                  isComplex |-> FALSE]

\* A slip in eigenvector(): the fallback axis is (0, 1).
eigenvectorFallbackY(this, lambda) ==
    LET a == this.a - lambda
        b == this.b
        c == this.c
        d == this.d - lambda
        vx == IF AboveEpsilon(b) THEN -b
              ELSE IF AboveEpsilon(c) THEN -d
              ELSE 0
        vy == IF AboveEpsilon(b) THEN a
              ELSE IF AboveEpsilon(c) THEN c
              ELSE Num(1)
        mag == Sqrt(AddInf(MulInf(vx, vx), MulInf(vy, vy)))
    IN  [x |-> Div(vx, mag), y |-> Div(vy, mag)]

\* A slip in eigenvector(): c is tested before b.
eigenvectorColumnFirst(this, lambda) ==
    LET a == this.a - lambda
        b == this.b
        c == this.c
        d == this.d - lambda
        vx == IF AboveEpsilon(c) THEN -d
              ELSE IF AboveEpsilon(b) THEN -b
              ELSE Num(1)
        vy == IF AboveEpsilon(c) THEN c
              ELSE IF AboveEpsilon(b) THEN a
              ELSE 0
        mag == Sqrt(AddInf(MulInf(vx, vx), MulInf(vy, vy)))
    IN  [x |-> Div(vx, mag), y |-> Div(vy, mag)]

\* A slip in eigenvector(): (-b, a) is used whatever b is.
eigenvectorNoGuard(this, lambda) ==
    LET a == this.a - lambda
        b == this.b
        vx == -b
        vy == a
        mag == Sqrt(AddInf(MulInf(vx, vx), MulInf(vy, vy)))
    IN  [x |-> Div(vx, mag), y |-> Div(vy, mag)]

eigenvector(this, lambda) ==
    LET a == this.a - lambda
        b == this.b
        c == this.c
        d == this.d - lambda
        vx == IF AboveEpsilon(b) THEN -b
              ELSE IF AboveEpsilon(c) THEN -d
              ELSE Num(1)
        vy == IF AboveEpsilon(b) THEN a
              ELSE IF AboveEpsilon(c) THEN c
              ELSE 0
        mag == Sqrt(AddInf(MulInf(vx, vx), MulInf(vy, vy)))
    IN  [x |-> Div(vx, mag), y |-> Div(vy, mag)]

\* A slip in getEigenvectors(): v1 computed from lambda2 and v2 from lambda1.
getEigenvectorsCrossed(this) ==
    LET ev == eigenvalues(this)
    IN  IF ev.isComplex
        THEN Null
        ELSE [v1 |-> eigenvector(this, ev.lambda2.real),
              v2 |-> eigenvector(this, ev.lambda1.real),
              lambda1 |-> ev.lambda1.real,
              lambda2 |-> ev.lambda2.real]

getEigenvectors(this) ==
    LET ev == eigenvalues(this)
    IN  IF ev.isComplex
        THEN Null
        ELSE [v1 |-> eigenvector(this, ev.lambda1.real),
              v2 |-> eigenvector(this, ev.lambda2.real),
              lambda1 |-> ev.lambda1.real,
              lambda2 |-> ev.lambda2.real]

\* A slip in inverse(): the off-diagonal entries not negated.
inverseUnsigned(this) ==
    LET det == determinant(this)
    IN  IF BelowEpsilon(det)
        THEN Null
        ELSE Matrix2D(Div(this.d, det), Div(this.b, det), Div(this.c, det), Div(this.a, det))

inverse(this) ==
    LET det == determinant(this)
    IN  IF BelowEpsilon(det)
        THEN Null
        ELSE Matrix2D(Div(this.d, det), Div(-this.b, det), Div(-this.c, det), Div(this.a, det))

\* The arguments are bound once, as x and y.
multiply(this, other) ==
    CHOOSE r \in
        {Matrix2D(Mul(x.a, y.a) + Mul(x.b, y.c),
                  Mul(x.a, y.b) + Mul(x.b, y.d),
                  Mul(x.c, y.a) + Mul(x.d, y.c),
                  Mul(x.c, y.b) + Mul(x.d, y.d)) :
         x \in {this}, y \in {other}} : TRUE

----------------------------------------------------------------------------
(* DiagonalizationApp: the stager's fields and its pure steps              *)

\* new Matrix2D(2, 1, 1, 2), the matrix used when the URL gives none.
DefaultMatrix == Matrix2D(Num(2), Num(1), Num(1), Num(2))

\* The matrices tried: every matrix with whole entries in -MaxEntry .. MaxEntry.
Entries == {Num(k) : k \in -MaxEntry .. MaxEntry}
Matrices == {Matrix2D(a, b, c, d) : a \in Entries, b \in Entries,
                                    c \in Entries, d \in Entries}

\* Matrices whose determinant is of the size of the rounding error of a*d
\* and b*c (in doubles: {3, 1, 2, 0.6666666667}, determinant 1.00000008e-10).
NearSingular ==
    {Matrix2D(Div(Num(3), Num(2)), Div(Num(3), Num(2)), Num(1), Num(1) + k) :
        k \in 1 .. MaxFine}

\* A slip in decompose(): D's diagonal in the other order than P's columns.
decomposeCrossed(app) ==
    LET ev == eigenvalues(app.targetMatrix)
        vecs == getEigenvectors(app.targetMatrix)
    IN  IF vecs = Null \/ ev.isComplex
        THEN app
        ELSE LET newP == Matrix2D(vecs.v1.x, vecs.v2.x, vecs.v1.y, vecs.v2.y)
                 newD == Matrix2D(ev.lambda2.real, 0, 0, ev.lambda1.real)
                 newPinv == inverse(newP)
             IN  [app EXCEPT !.P = newP, !.D = newD, !.Pinv = newPinv,
                             !.isDiagonalizable = (newPinv # Null)]

\* A slip in decompose(): the eigenvectors laid out as P's rows.
decomposeRows(app) ==
    LET ev == eigenvalues(app.targetMatrix)
        vecs == getEigenvectors(app.targetMatrix)
    IN  IF vecs = Null \/ ev.isComplex
        THEN app
        ELSE LET newP == Matrix2D(vecs.v1.x, vecs.v1.y, vecs.v2.x, vecs.v2.y)
                 newD == Matrix2D(ev.lambda1.real, 0, 0, ev.lambda2.real)
                 newPinv == inverse(newP)
             IN  [app EXCEPT !.P = newP, !.D = newD, !.Pinv = newPinv,
                             !.isDiagonalizable = (newPinv # Null)]

\* decompose(): app is the record of the fields it reads and writes.
decompose(app) ==
    LET ev == eigenvalues(app.targetMatrix)
        vecs == getEigenvectors(app.targetMatrix)
    IN  IF vecs = Null \/ ev.isComplex
        THEN app
        ELSE LET newP == Matrix2D(vecs.v1.x, vecs.v2.x, vecs.v1.y, vecs.v2.y)
                 newD == Matrix2D(ev.lambda1.real, 0, 0, ev.lambda2.real)
                 newPinv == inverse(newP)
             IN  [app EXCEPT !.P = newP, !.D = newD, !.Pinv = newPinv,
                             !.isDiagonalizable = (newPinv # Null)]

\* What a property access on null throws.
TypeError == [error |-> "TypeError"]

\* A slip in the second stage: its width taken as 0.33, like the other two.
localTEqualWidths(prog) ==
    IF prog < Div(Num(33), Num(100))
    THEN Div(prog, Div(Num(33), Num(100)))
    ELSE IF prog < Div(Num(67), Num(100))
    THEN Div(prog - Div(Num(33), Num(100)), Div(Num(33), Num(100)))
    ELSE Div(prog - Div(Num(67), Num(100)), Div(Num(33), Num(100)))

\* The local interpolation parameter t of getCurrentMatrix() at progress prog.
localT(prog) ==
    IF prog < Div(Num(33), Num(100))
    THEN Div(prog, Div(Num(33), Num(100)))
    ELSE IF prog < Div(Num(67), Num(100))
    THEN Div(prog - Div(Num(33), Num(100)), Div(Num(34), Num(100)))
    ELSE Div(prog - Div(Num(67), Num(100)), Div(Num(33), Num(100)))

\* A slip in getCurrentMatrix(): the isDiagonalizable guard left out.
getCurrentMatrixUnguarded(app, prog) ==
    IF app.Pinv = Null
    THEN TypeError
    ELSE IF prog < Div(Num(33), Num(100))
    THEN lerp(identity, app.Pinv, localT(prog))
    ELSE IF prog < Div(Num(67), Num(100))
    THEN lerp(app.Pinv, multiply(app.Pinv, app.D), localT(prog))
    ELSE lerp(multiply(app.Pinv, app.D),
              multiply(multiply(app.Pinv, app.D), app.P), localT(prog))

\* getCurrentMatrix(): the staged product at this.progress.  Past the guard,
\* every stage reads a field of this.Pinv, which throws when Pinv is null.
getCurrentMatrix(app, prog) ==
    IF ~app.isDiagonalizable
    THEN identity
    ELSE IF app.Pinv = Null
    THEN TypeError
    ELSE IF prog < Div(Num(33), Num(100))
    THEN lerp(identity, app.Pinv, localT(prog))
    ELSE IF prog < Div(Num(67), Num(100))
    THEN LET t == localT(prog)
             PinvD == multiply(app.Pinv, app.D)
         IN  lerp(app.Pinv, PinvD, t)
    ELSE LET t == localT(prog)
             PinvD == multiply(app.Pinv, app.D)
             A == multiply(PinvD, app.P)
         IN  lerp(PinvD, A, t)

----------------------------------------------------------------------------
(* State                                                                   *)

VARIABLES
    m,                 \* engine harness: the Matrix2D a method is called on
    call,              \* engine harness: the method last called
    arg,               \* engine harness: its argument
    ret,               \* engine harness: what it returned
    pc,                \* DiagonalizationApp: "new" in the constructor, then "ready"
    targetMatrix,      \* DiagonalizationApp.targetMatrix
    P,                 \* DiagonalizationApp.P
    D,                 \* DiagonalizationApp.D
    Pinv,              \* DiagonalizationApp.Pinv
    isDiagonalizable,  \* DiagonalizationApp.isDiagonalizable
    progress,          \* DiagonalizationApp.progress
    drawn,             \* the matrix draw() last got from getCurrentMatrix()
    isAnimating,       \* DiagonalizationApp.isAnimating, EigenvectorApp.isAnimating
    animationSpeed,    \* DiagonalizationApp.animationSpeed, EigenvectorApp.animationSpeed
    anims,             \* the animate closures waiting for the next frame, oldest first
    quiet,             \* the user has stopped clicking, dragging and typing
    afterReset,        \* history: reset() ran and no step or scrub event since
    animationProgress, \* EigenvectorApp.animationProgress
    currentMatrix,     \* EigenvectorApp.currentMatrix
    animationId,       \* EigenvectorApp.animationId, 0 for null
    frames,            \* ids of the requested animate() callbacks not yet run, oldest first
    eigenTrails,       \* EigenvectorApp.eigenTrails
    card               \* what drawDeterminantInfoCard() last put on the canvas

engineVars == <<m, call, arg, ret>>
appVars == <<pc, targetMatrix, P, D, Pinv, isDiagonalizable, progress, drawn>>
animVars == <<isAnimating, animationSpeed, anims, quiet>>
viewVars == <<animationProgress, currentMatrix, animationId, frames, eigenTrails,
              card>>
vars == <<m, call, arg, ret, pc, targetMatrix, P, D, Pinv, isDiagonalizable,
          progress, drawn, isAnimating, animationSpeed, anims, quiet, afterReset,
          animationProgress, currentMatrix, animationId, frames, eigenTrails, card>>

\* The stager's fields as decompose() and getCurrentMatrix() see them.
App == [targetMatrix |-> targetMatrix, P |-> P, D |-> D, Pinv |-> Pinv,
        isDiagonalizable |-> isDiagonalizable]

----------------------------------------------------------------------------
(* Specification Spec: one DiagonalizationApp page                         *)

\* Scrubber positions tried: k / ProgressSteps, the stage boundaries and the
\* last position before each boundary.
ProgressSteps == 4
ProgressPoints ==
    {Div(Num(k), Num(ProgressSteps)) : k \in 0 .. ProgressSteps}
        \cup {Div(Num(33), Num(100)), Div(Num(67), Num(100))}
        \cup {Div(Num(33), Num(100)) - 1, Div(Num(67), Num(100)) - 1}

\* EigenvectorApp's constructor up to setupInputListeners().
ViewFieldsInit ==
    /\ animationProgress = 0
    /\ currentMatrix = identity
    /\ animationId = 0
    /\ frames = <<>>
    /\ eigenTrails = <<<<>>, <<>>>>
    /\ card = Null

\* The constructor up to the assignment of targetMatrix.
FieldsInit ==
    /\ pc = "new"
    /\ progress = 0
    /\ P = identity
    /\ D = identity
    /\ Pinv = identity
    /\ isDiagonalizable = FALSE
    /\ drawn = Null
    /\ isAnimating = FALSE
    /\ animationSpeed = Num(1)
    /\ anims = <<>>
    /\ quiet = FALSE
    /\ afterReset = FALSE
    /\ ViewFieldsInit

Init ==
    /\ FieldsInit
    /\ targetMatrix \in Matrices \cup {DefaultMatrix}
    /\ m = Null /\ call = "none" /\ arg = Null /\ ret = Null

\* The rest of the constructor: decompose(), updateUI(), draw().
Construct ==
    /\ pc = "new"
    /\ LET app == decompose(App)
       IN  /\ P' = app.P
           /\ D' = app.D
           /\ Pinv' = app.Pinv
           /\ isDiagonalizable' = app.isDiagonalizable
           /\ drawn' = getCurrentMatrix(app, progress)
    /\ pc' = "ready"
    /\ UNCHANGED <<targetMatrix, progress>>
    /\ UNCHANGED engineVars
    /\ UNCHANGED viewVars
    /\ UNCHANGED afterReset
    /\ UNCHANGED animVars

\* updateProgress(clientX): a click on the track or a drag of the handle.
UpdateProgress(p) ==
    /\ pc = "ready"
    /\ progress' = p
    /\ drawn' = getCurrentMatrix(App, p)
    /\ UNCHANGED <<pc, targetMatrix, P, D, Pinv, isDiagonalizable>>
    /\ UNCHANGED engineVars
    /\ UNCHANGED viewVars
    /\ afterReset' = FALSE
    /\ UNCHANGED animVars

Next ==
    \/ Construct
    \/ \E p \in ProgressPoints : UpdateProgress(p)

Spec == Init /\ [][Next]_vars

----------------------------------------------------------------------------
(* Specification EngineSpec: calls of Matrix2D methods                     *)

Lambdas == {Num(k) : k \in -MaxLambda .. MaxLambda}

EngineInit ==
    /\ m \in Matrices \cup NearSingular
    /\ call = "none" /\ arg = Null /\ ret = Null
    /\ FieldsInit
    /\ targetMatrix = DefaultMatrix

Call(name, a, r) ==
    /\ call' = name
    /\ arg' = a
    /\ ret' = r
    /\ UNCHANGED m
    /\ UNCHANGED appVars
    /\ UNCHANGED animVars
    /\ UNCHANGED <<afterReset, viewVars>>

CallEigenvalues == Call("eigenvalues", Null, eigenvalues(m))

CallEigenvector(lambda) == Call("eigenvector", [lambda |-> lambda], eigenvector(m, lambda))

CallGetEigenvectors == Call("getEigenvectors", Null, getEigenvectors(m))

CallInverse == Call("inverse", Null, inverse(m))

EngineNext ==
    \/ CallEigenvalues
    \/ \E lambda \in Lambdas : CallEigenvector(lambda)
    \/ CallGetEigenvectors
    \/ CallInverse

EngineSpec == EngineInit /\ [][EngineNext]_vars

----------------------------------------------------------------------------
(* Specification AnimSpec: the stager's buttons and animation frames       *)

\* Closures kept waiting at once.
MaxAnims == 2

\* Values of the speed buttons' data-speed attribute that are tried.
Speeds == {Num(1), Num(2)}

\* Milliseconds between two frames that are tried.
FrameTimes == {Num(300)}

\* Scrubber position tried while animations run: just below the first phase.
ScrubPoints == {Div(Num(33), Num(100)) - 1}

phases == <<0, Div(Num(33), Num(100)), Div(Num(67), Num(100)), Num(1)>>

\* phases.findIndex(pred), with 0 for JavaScript's -1 (indices start at 1).
RECURSIVE findIndexFrom(_, _, _)
findIndexFrom(seq, i, bound) ==
    IF i > Len(seq)
    THEN 0
    ELSE IF seq[i] > bound THEN i ELSE findIndexFrom(seq, i + 1, bound)

\* A slip in stepToNextPhase(): the 0.01 margin left out.
nextPhaseNoMargin(prog) ==
    LET nextPhaseIndex == findIndexFrom(phases, 1, prog)
    IN  IF nextPhaseIndex = 0 THEN 0 ELSE phases[nextPhaseIndex]

\* The target stepToNextPhase() hands to animateToProgress().
nextPhase(prog) ==
    LET nextPhaseIndex == findIndexFrom(phases, 1, prog + Div(Num(1), Num(100)))
    IN  IF nextPhaseIndex = 0 THEN 0 ELSE phases[nextPhaseIndex]

Min(x, y) == IF x < y THEN x ELSE y

\* The ease in-out curve inside animate.
eased(t) ==
    IF t < Div(Num(1), Num(2))
    THEN Mul(Mul(Num(2), t), t)
    ELSE -Num(1) + Mul(Num(4) - Mul(Num(2), t), t)

\* A slip in animate: the closure asks for another frame even at t = 1.
animateForever(cb, dt, st) ==
    LET elapsed == cb.elapsed + dt
        t == Min(Div(elapsed, cb.duration), Num(1))
        prog == cb.start + Mul(cb.target - cb.start, eased(t))
    IN  [progress |-> prog, isAnimating |-> st.isAnimating,
         pending |-> Append(st.pending, [cb EXCEPT !.elapsed = Min(elapsed, cb.duration)])]

\* One run of the closure animate, dt after its last run (or after startTime).
\* st carries progress, isAnimating and the closures registered for the next
\* frame.
animate(cb, dt, st) ==
    LET elapsed == cb.elapsed + dt
        t == Min(Div(elapsed, cb.duration), Num(1))
        prog == cb.start + Mul(cb.target - cb.start, eased(t))
    IN  IF t < Num(1)
        THEN [progress |-> prog, isAnimating |-> st.isAnimating,
              pending |-> Append(st.pending, [cb EXCEPT !.elapsed = elapsed])]
        ELSE [progress |-> cb.target, isAnimating |-> FALSE,
              pending |-> st.pending]

\* The browser runs the frame's callbacks in the order they were registered.
RECURSIVE runFrame(_, _, _)
runFrame(cbs, dt, st) ==
    IF cbs = <<>>
    THEN st
    ELSE runFrame(Tail(cbs), dt, animate(Head(cbs), dt, st))

AnimInit ==
    /\ FieldsInit
    /\ targetMatrix = DefaultMatrix
    /\ m = Null /\ call = "none" /\ arg = Null /\ ret = Null

\* animateToProgress(targetProgress)
AnimateToProgress(targetProgress) ==
    IF isAnimating
    THEN UNCHANGED <<progress, drawn, isAnimating, anims>>
    ELSE /\ Len(anims) < MaxAnims
         /\ isAnimating' = TRUE
         /\ anims' = Append(anims,
                [start |-> progress, target |-> targetProgress,
                 duration |-> Div(Num(800), animationSpeed), elapsed |-> 0])
         /\ UNCHANGED <<progress, drawn>>

\* stepToNextPhase(): the Step button or the space bar.
StepToNextPhase ==
    /\ pc = "ready"
    /\ ~quiet
    /\ AnimateToProgress(nextPhase(progress))
    /\ UNCHANGED <<pc, targetMatrix, P, D, Pinv, isDiagonalizable>>
    /\ UNCHANGED <<animationSpeed, quiet>>
    /\ UNCHANGED engineVars
    /\ UNCHANGED viewVars
    /\ afterReset' = FALSE

\* An animation frame: every waiting closure runs.
Frame(dt) ==
    /\ pc = "ready"
    /\ anims # <<>>
    /\ \E st \in {runFrame(anims, dt,
                    [progress |-> progress, isAnimating |-> isAnimating,
                     pending |-> <<>>])} :
           /\ progress' = st.progress
           /\ isAnimating' = st.isAnimating
           /\ anims' = st.pending
           /\ drawn' = getCurrentMatrix(App, st.progress)
    /\ UNCHANGED <<pc, targetMatrix, P, D, Pinv, isDiagonalizable>>
    /\ UNCHANGED <<animationSpeed, quiet>>
    /\ UNCHANGED engineVars
    /\ UNCHANGED viewVars
    /\ UNCHANGED afterReset

\* reset(): the Reset button.
Reset ==
    /\ pc = "ready"
    /\ ~quiet
    /\ progress' = 0
    /\ isAnimating' = FALSE
    /\ drawn' = getCurrentMatrix(App, 0)
    /\ UNCHANGED <<pc, targetMatrix, P, D, Pinv, isDiagonalizable>>
    /\ UNCHANGED <<animationSpeed, anims, quiet>>
    /\ UNCHANGED engineVars
    /\ UNCHANGED viewVars
    /\ afterReset' = TRUE

\* setSpeed(speed): a speed button.
SetSpeed(speed) ==
    /\ pc = "ready"
    /\ ~quiet
    /\ animationSpeed' = speed
    /\ UNCHANGED appVars
    /\ UNCHANGED <<isAnimating, anims, quiet>>
    /\ UNCHANGED engineVars
    /\ UNCHANGED viewVars
    /\ UNCHANGED afterReset

\* The user's last event has been handled; only frames follow.
GoQuiet ==
    /\ pc = "ready"
    /\ ~quiet
    /\ quiet' = TRUE
    /\ UNCHANGED appVars
    /\ UNCHANGED <<isAnimating, animationSpeed, anims>>
    /\ UNCHANGED engineVars
    /\ UNCHANGED viewVars
    /\ UNCHANGED afterReset

Scrub(p) == ~quiet /\ UpdateProgress(p)

AnyFrame == \E dt \in FrameTimes : Frame(dt)

AnimNext ==
    \/ Construct
    \/ StepToNextPhase
    \/ AnyFrame
    \/ Reset
    \/ \E speed \in Speeds : SetSpeed(speed)
    \/ \E p \in ScrubPoints : Scrub(p)
    \/ GoQuiet

\* requestAnimationFrame: a waiting closure is run in the end.
AnimSpec == AnimInit /\ [][AnimNext]_vars /\ WF_vars(AnyFrame)

----------------------------------------------------------------------------
(* Specification LerpSpec: Matrix2D.lerp in rounded arithmetic             *)

\* A double keeps 53 significant bits and every operation rounds its result
\* to the nearest double.  Here a number keeps Prec significant bits: the
\* whole numbers 0 .. 2^Prec - 1, then every second one, every fourth one ...
Prec == 2

\* Largest entry and largest t tried.
MaxFloat == 6
MaxT == 2

\* The spacing of the representable numbers at magnitude a.
RECURSIVE QuantumFrom(_, _)
QuantumFrom(a, q) == IF a < (2 ^ Prec) * q THEN q ELSE QuantumFrom(a, 2 * q)

\* n rounded to the nearest representable number, ties to the even mantissa.
Fl(n) ==
    LET q == QuantumFrom(Abs(n), 1)
        k == Abs(n) \div q
        r == Abs(n) % q
        up == IF 2 * r > q \/ (2 * r = q /\ k % 2 = 1) THEN 1 ELSE 0
    IN  Sign(n) * (k + up) * q

FAdd(x, y) == Fl(x + y)
FSub(x, y) == Fl(x - y)
FMul(x, y) == Fl(x * y)

\* A slip in lerp: the difference taken the other way round.
lerpRoundedBackwards(m1, m2, t) ==
    Matrix2D(FAdd(m1.a, FMul(FSub(m1.a, m2.a), t)),
             FAdd(m1.b, FMul(FSub(m1.b, m2.b), t)),
             FAdd(m1.c, FMul(FSub(m1.c, m2.c), t)),
             FAdd(m1.d, FMul(FSub(m1.d, m2.d), t)))

\* Matrix2D.lerp with every operation rounded.
lerpRounded(m1, m2, t) ==
    Matrix2D(FAdd(m1.a, FMul(FSub(m2.a, m1.a), t)),
             FAdd(m1.b, FMul(FSub(m2.b, m1.b), t)),
             FAdd(m1.c, FMul(FSub(m2.c, m1.c), t)),
             FAdd(m1.d, FMul(FSub(m2.d, m1.d), t)))

\* Entries tried: 0, 1 and the representable number nearest MaxFloat.
FloatEntries == {0, 1, Fl(MaxFloat)}

FloatMatrices ==
    {Matrix2D(a, b, c, d) : a \in FloatEntries, b \in FloatEntries,
                            c \in FloatEntries, d \in FloatEntries}

\* The arguments of one call Matrix2D.lerp(m, arg.m2, arg.t).
LerpInit ==
    /\ m \in FloatMatrices
    /\ arg \in [m2 : FloatMatrices, t : 0 .. MaxT]
    /\ call = "none" /\ ret = Null
    /\ FieldsInit
    /\ targetMatrix = DefaultMatrix

CallLerp ==
    /\ call = "none"
    /\ Call("lerp", arg, lerpRounded(m, arg.m2, arg.t))

LerpNext == CallLerp

LerpSpec == LerpInit /\ [][LerpNext]_vars

----------------------------------------------------------------------------
(* Specification NormSpec: eigenvector(lambda) on small and large entries  *)

\* A large entry: its square is beyond MaxFinite.
MaxLarge == 40

LargeMatrices ==
    {Matrix2D(a, b, c, d) : a \in {0, Num(1), Num(MaxLarge)},
                            b \in {0, Num(1), Num(MaxLarge)},
                            c \in {0, Num(1), Num(MaxLarge)},
                            d \in {0, Num(1), Num(MaxLarge)}}

NormInit ==
    /\ m \in Matrices \cup LargeMatrices
    /\ call = "none" /\ arg = Null /\ ret = Null
    /\ FieldsInit
    /\ targetMatrix = DefaultMatrix

NormNext == \E lambda \in Lambdas : CallEigenvector(lambda)

NormSpec == NormInit /\ [][NormNext]_vars

----------------------------------------------------------------------------
(* Specification UrlSpec: the stager's matrix query parameter              *)

\* Longest value of the matrix parameter tried.
MaxUrlLen == 7

\* The characters tried: a digit, a sign, the separator, a blank, a letter.
UrlChars == {"1", "-", ",", " ", "x"}

UrlStrings == UNION {[1 .. n -> UrlChars] : n \in 0 .. MaxUrlLen}

\* matrixStr.split(','): the fields between the commas, empty ones included.
RECURSIVE splitFrom(_, _, _, _)
splitFrom(str, i, field, fields) ==
    IF i > Len(str)
    THEN Append(fields, field)
    ELSE IF str[i] = ","
    THEN splitFrom(str, i + 1, <<>>, Append(fields, field))
    ELSE splitFrom(str, i + 1, Append(field, str[i]), fields)

split(str) == splitFrom(str, 1, <<>>, <<>>)

\* Number() ignores white space around the numeral.
RECURSIVE trimStart(_)
trimStart(str) ==
    IF str # <<>> /\ Head(str) = " " THEN trimStart(Tail(str)) ELSE str

RECURSIVE trimEnd(_)
trimEnd(str) ==
    IF str # <<>> /\ str[Len(str)] = " "
    THEN trimEnd(SubSeq(str, 1, Len(str) - 1))
    ELSE str

trim(str) == trimEnd(trimStart(str))

AllDigits(str) == str # <<>> /\ \A i \in 1 .. Len(str) : str[i] = "1"

\* The value of the numeral 1...1 of n digits.
RECURSIVE Repunit(_)
Repunit(n) == IF n = 0 THEN 0 ELSE 10 * Repunit(n - 1) + 1

\* Number(string): 0 for an empty or blank string, the numeral's value for a
\* signed decimal numeral, NaN for anything else.
Number(str) ==
    LET t == trim(str)
    IN  IF t = <<>> THEN 0
        ELSE IF AllDigits(t) THEN Num(Repunit(Len(t)))
        ELSE IF Head(t) = "-" /\ AllDigits(Tail(t))
        THEN -Num(Repunit(Len(t) - 1))
        ELSE NaN

\* parseMatrixFromURL(): param.present is false when the URL has no matrix
\* parameter (params.get gives null).
parseMatrixFromURL(param) ==
    IF param.present /\ param.matrixStr # <<>>
    THEN LET fields == split(param.matrixStr)
             values == [i \in 1 .. Len(fields) |-> Number(fields[i])]
         IN  IF Len(values) = 4 /\ \A i \in 1 .. Len(values) : values[i] # NaN
             THEN Matrix2D(values[1], values[2], values[3], values[4])
             ELSE Null
    ELSE Null

UrlInit ==
    /\ arg \in [present : {TRUE}, matrixStr : UrlStrings]
                  \cup {[present |-> FALSE, matrixStr |-> <<>>]}
    /\ m = Null /\ call = "none" /\ ret = Null
    /\ FieldsInit
    /\ targetMatrix = Null

\* The constructor's this.targetMatrix = this.parseMatrixFromURL() || default.
ParseURL ==
    /\ pc = "new"
    /\ call = "none"
    /\ call' = "parseMatrixFromURL"
    /\ ret' = parseMatrixFromURL(arg)
    /\ targetMatrix' = IF parseMatrixFromURL(arg) # Null
                       THEN parseMatrixFromURL(arg)
                       ELSE DefaultMatrix
    /\ UNCHANGED <<m, arg>>
    /\ UNCHANGED <<pc, P, D, Pinv, isDiagonalizable, progress, drawn>>
    /\ UNCHANGED animVars
    /\ UNCHANGED <<afterReset, viewVars>>

UrlNext == ParseURL

UrlSpec == UrlInit /\ [][UrlNext]_vars


----------------------------------------------------------------------------
(* Specification PlaySpec: one EigenvectorApp page                         *)

\* The presets clicked and the matrices typed into the four inputs.
PRESETS ==
    [rotation   |-> Matrix2D(0, -Num(1), Num(1), 0),
     scaling    |-> Matrix2D(Num(2), 0, 0, Num(2)),
     shearX     |-> Matrix2D(Num(1), Num(1), 0, Num(1)),
     shearY     |-> Matrix2D(Num(1), 0, Num(1), Num(1)),
     reflection |-> Matrix2D(Num(1), 0, 0, -Num(1)),
     projection |-> Matrix2D(Num(1), 0, 0, 0),
     squeeze    |-> Matrix2D(Num(2), Num(1), Num(1), Num(2))]

PresetNames == {"rotation"}

InputMatrices == {Matrix2D(Num(2), Num(1), Num(1), Num(2))}

\* The matrices typed in specification TrailSpec: one with real and one with
\* complex eigenvalues.
TrailMatrices == {Matrix2D(Num(2), Num(1), Num(1), Num(2)),
                  Matrix2D(0, -Num(1), Num(1), 0)}

\* Every matrix targetMatrix can hold, and getEigenvectors() tabulated on
\* them: targetMatrix.getEigenvectors() is looked up, not recomputed.
ViewMatrices ==
    {DefaultMatrix} \cup InputMatrices \cup TrailMatrices
        \cup {PRESETS[n] : n \in PresetNames}

eigenvectorsTable == {<<mat, getEigenvectors(mat)>> : mat \in ViewMatrices}

targetEigenvectors(mat) == (CHOOSE row \in eigenvectorsTable : row[1] = mat)[2]

\* Speed buttons and positions on the scrubber track.
PlaySpeeds == {Num(3)}
TrackPoints == {Num(1)}

\* At most MaxFrames animate() callbacks are requested and not yet run.
MaxFrames == 2

maxTrailLength == 30

Max(x, y) == IF x > y THEN x ELSE y

\* x.toFixed(digits), digits <= 3: x rounded to that many decimals.
toFixed(x, digits) == RoundDiv(x, 10 ^ (3 - digits)) * 10 ^ (3 - digits)

easeInOutCubic(t) ==
    CHOOSE r \in
        {IF s < Div(Num(1), Num(2))
         THEN Mul(Mul(Mul(Num(4), s), s), s)
         ELSE Num(1) - Div(Mul(Mul(Num(2) - Mul(Num(2), s), Num(2) - Mul(Num(2), s)),
                               Num(2) - Mul(Num(2), s)), Num(2)) :
         s \in {t}} : TRUE

\* The fields of the EigenvectorApp.
View == [targetMatrix |-> targetMatrix, currentMatrix |-> currentMatrix,
         animationProgress |-> animationProgress, isAnimating |-> isAnimating,
         animationSpeed |-> animationSpeed, animationId |-> animationId,
         frames |-> frames, eigenTrails |-> eigenTrails, card |-> card]

Becomes(st0) ==
    \E st \in {st0} :
    /\ targetMatrix' = st.targetMatrix
    /\ currentMatrix' = st.currentMatrix
    /\ animationProgress' = st.animationProgress
    /\ isAnimating' = st.isAnimating
    /\ animationSpeed' = st.animationSpeed
    /\ animationId' = st.animationId
    /\ frames' = st.frames
    /\ eigenTrails' = st.eigenTrails
    /\ card' = st.card

\* requestAnimationFrame(): an id no waiting callback has.
requestAnimationFrame(waiting) ==
    CHOOSE id \in 1 .. Len(waiting) + 1 :
        /\ \A i \in 1 .. Len(waiting) : waiting[i] # id
        /\ \A k \in 1 .. id - 1 : \E i \in 1 .. Len(waiting) : waiting[i] = k

cancelAnimationFrame(waiting, id) == SelectSeq(waiting, LAMBDA w : w # id)

\* drawDeterminantInfoCard(): the determinant and, if the target has real
\* eigenvalues, the two eigenvalues after '= l1 x l2 ='.
drawDeterminantInfoCard(st) ==
    CHOOSE r \in
        {[det |-> toFixed(determinant(st.currentMatrix), 3),
          eigen |-> IF ev = Null THEN Null
                    ELSE [lambda1 |-> toFixed(ev.lambda1, 2),
                          lambda2 |-> toFixed(ev.lambda2, 2)]] :
         ev \in {targetEigenvectors(st.targetMatrix)}} : TRUE

\* draw(), with showDeterminant on as the constructor sets it.
draw(st0) ==
    CHOOSE r \in {[st EXCEPT !.card = drawDeterminantInfoCard(st)] : st \in {st0}} : TRUE

setProgress(st0, p) ==
    CHOOSE r \in
        {draw([st EXCEPT
                 !.animationProgress = Max(0, Min(Num(1), p)),
                 !.currentMatrix =
                     lerp(identity, st.targetMatrix,
                          easeInOutCubic(Max(0, Min(Num(1), p))))]) :
         st \in {st0}} : TRUE

\* updateMatrixFromInputs() with the matrix mat in the four inputs.
updateMatrixFromInputs(st0, mat) ==
    CHOOSE r \in
        {IF ~st.isAnimating
         THEN draw([st EXCEPT
                      !.targetMatrix = mat,
                      !.currentMatrix =
                          lerp(identity, mat, easeInOutCubic(st.animationProgress))])
         ELSE [st EXCEPT !.targetMatrix = mat] :
         st \in {st0}} : TRUE

reset(st0) ==
    CHOOSE r \in
        {draw([st EXCEPT
                 !.isAnimating = FALSE,
                 !.frames = IF st.animationId # 0
                            THEN cancelAnimationFrame(st.frames, st.animationId)
                            ELSE st.frames,
                 !.animationProgress = 0,
                 !.currentMatrix = identity,
                 !.eigenTrails = <<<<>>, <<>>>>]) :
         st \in {st0}} : TRUE

loadPreset(st, presetName) ==
    IF presetName \notin DOMAIN PRESETS
    THEN st
    ELSE reset([st EXCEPT !.targetMatrix = PRESETS[presetName]])

\* A slip in recordTrails(): the oldest entry is never dropped.
pushTrailUnbounded(trail, entry) == Append(trail, entry)

\* trail.push(entry), then trail.shift() if it has grown beyond maxTrailLength.
pushTrail(trail, entry) ==
    IF Len(trail) + 1 > maxTrailLength
    THEN Tail(Append(trail, entry))
    ELSE Append(trail, entry)

\* A trail entry.  The coordinates currentMatrix.transform(3 v) are only
\* drawn; the trails keep one entry per recorded point.
point == "point"

recordTrails(st0) ==
    CHOOSE r \in
        {IF ev = Null
         THEN [st EXCEPT !.eigenTrails = <<<<>>, <<>>>>]
         ELSE [st EXCEPT !.eigenTrails =
                 <<pushTrail(st.eigenTrails[1], point),
                   pushTrail(st.eigenTrails[2], point)>>] :
         st \in {st0}, ev \in {targetEigenvectors(st0.targetMatrix)}} : TRUE

\* The end of animate(): the next frame is requested while animating.
requestNext(st0) ==
    CHOOSE r \in
        {IF st.isAnimating
         THEN [st EXCEPT !.animationId = id, !.frames = Append(st.frames, id)]
         ELSE st :
         st \in {st0}, id \in {requestAnimationFrame(st0.frames)}} : TRUE

\* A slip in animate(): isAnimating is not cleared at the end.
animateAppNoStop(st0) ==
    CHOOSE r \in
        {IF ~st.isAnimating
         THEN st
         ELSE requestNext(draw(recordTrails(
                [st EXCEPT
                   !.animationProgress = IF p >= Num(1) THEN Num(1) ELSE p,
                   !.currentMatrix =
                       lerp(identity, st.targetMatrix,
                            easeInOutCubic(IF p >= Num(1) THEN Num(1) ELSE p))]))) :
         st \in {st0},
         p \in {st0.animationProgress
                    + Mul(Div(Num(8), Num(1000)), st0.animationSpeed)}} : TRUE

\* A slip in animate(): the progress is not cut back to 1.
animateAppNoClamp(st0) ==
    CHOOSE r \in
        {IF ~st.isAnimating
         THEN st
         ELSE requestNext(draw(recordTrails(
                [st EXCEPT
                   !.animationProgress = p,
                   !.isAnimating = ~(p >= Num(1)),
                   !.currentMatrix =
                       lerp(identity, st.targetMatrix, easeInOutCubic(p))]))) :
         st \in {st0},
         p \in {st0.animationProgress
                    + Mul(Div(Num(8), Num(1000)), st0.animationSpeed)}} : TRUE

\* animate() with the progress after the increment bound as p.
animateApp(st0) ==
    CHOOSE r \in
        {IF ~st.isAnimating
         THEN st
         ELSE requestNext(draw(recordTrails(
                [st EXCEPT
                   !.animationProgress = IF p >= Num(1) THEN Num(1) ELSE p,
                   !.isAnimating = ~(p >= Num(1)),
                   !.currentMatrix =
                       lerp(identity, st.targetMatrix,
                            easeInOutCubic(IF p >= Num(1) THEN Num(1) ELSE p))]))) :
         st \in {st0},
         p \in {st0.animationProgress
                    + Mul(Div(Num(8), Num(1000)), st0.animationSpeed)}} : TRUE

togglePlay(st0) ==
    CHOOSE r \in
        {IF st.isAnimating
         THEN [st EXCEPT !.isAnimating = FALSE]
         ELSE animateApp([(IF st.animationProgress >= Num(1) THEN reset(st) ELSE st)
                            EXCEPT !.isAnimating = TRUE]) :
         st \in {st0}} : TRUE

stepForward(st) ==
    setProgress([st EXCEPT !.isAnimating = FALSE],
                Min(Num(1), st.animationProgress + Div(Num(1), Num(10))))

setSpeed(st, speed) == [st EXCEPT !.animationSpeed = speed]

\* One frame: the callbacks that were waiting run, oldest first; what they
\* request waits for the next frame.
RECURSIVE runCallbacks(_, _)
runCallbacks(n, st) ==
    IF n = 0
    THEN st
    ELSE runCallbacks(n - 1, animateApp([st EXCEPT !.frames = Tail(@)]))

PlayInit ==
    /\ FieldsInit
    /\ targetMatrix = DefaultMatrix
    /\ m = Null /\ call = "none" /\ arg = Null /\ ret = Null

\* What no EigenvectorApp handler touches.
restVars == <<m, call, arg, ret, P, D, Pinv, isDiagonalizable, progress, drawn,
              anims, afterReset>>

\* The end of the constructor: updateMatrixFromInputs() reads the inputs'
\* initial values mat, then draw().
ViewConstruct(mat) ==
    /\ pc = "new"
    /\ Becomes(draw(updateMatrixFromInputs(View, mat)))
    /\ pc' = "view"
    /\ UNCHANGED quiet
    /\ UNCHANGED restVars

\* A user event or a frame handled by handler, which leaves the page as st.
Handle(st) ==
    /\ pc = "view"
    /\ Becomes(st)
    /\ UNCHANGED <<pc, quiet>>
    /\ UNCHANGED restVars

\* The Play / Pause button.
TogglePlay ==
    /\ ~quiet
    /\ isAnimating \/ Len(frames) < MaxFrames
    /\ Handle(togglePlay(View))

\* An animation frame.
ViewFrame ==
    /\ frames # <<>>
    /\ Handle(runCallbacks(Len(frames), View))

StepForward ==
    /\ ~quiet
    /\ Handle(stepForward(View))

ViewReset ==
    /\ ~quiet
    /\ Handle(reset(View))

ViewSetSpeed(speed) ==
    /\ ~quiet
    /\ Handle(setSpeed(View, speed))

\* An input event on one of the four matrix inputs.
Input(mat) ==
    /\ ~quiet
    /\ Handle(updateMatrixFromInputs(View, mat))

\* A click on a preset chip.
LoadPreset(presetName) ==
    /\ ~quiet
    /\ Handle(loadPreset(View, presetName))

\* mousedown on the scrubber's track at position p.
TrackMouseDown(p) ==
    /\ ~quiet
    /\ Handle(setProgress(View, p))

\* mousemove to position p while isDragging, that is with the button held since
\* a mousedown on the handle or the track (which only set isDragging).
Drag(p) ==
    /\ ~quiet
    /\ Handle(setProgress([View EXCEPT !.isAnimating = FALSE], p))

PlayNext ==
    \/ \E mat \in InputMatrices : ViewConstruct(mat)
    \/ TogglePlay
    \/ ViewFrame
    \/ StepForward
    \/ ViewReset
    \/ \E speed \in PlaySpeeds : ViewSetSpeed(speed)
    \/ \E mat \in InputMatrices : Input(mat)
    \/ \E presetName \in PresetNames : LoadPreset(presetName)
    \/ \E p \in TrackPoints : TrackMouseDown(p)
    \/ \E p \in TrackPoints : Drag(p)

PlaySpec == PlayInit /\ [][PlayNext]_vars

----------------------------------------------------------------------------
(* Specification TrailSpec: the handlers that write eigenTrails or decide  *)
(* whether animate() runs, with matrices of both kinds typed in            *)

TrailNext ==
    \/ \E mat \in InputMatrices : ViewConstruct(mat)
    \/ TogglePlay
    \/ ViewFrame
    \/ ViewReset
    \/ \E mat \in TrailMatrices : Input(mat)

TrailSpec == PlayInit /\ [][TrailNext]_vars


----------------------------------------------------------------------------
(* Specification PlayLiveSpec: an animation left to run                    *)

\* The user's last event has been handled; only frames follow.
ViewGoQuiet ==
    /\ pc = "view"
    /\ ~quiet
    /\ quiet' = TRUE
    /\ UNCHANGED <<pc, targetMatrix, isAnimating, animationSpeed>>
    /\ UNCHANGED viewVars
    /\ UNCHANGED restVars

PlayLiveNext ==
    \/ \E mat \in InputMatrices : ViewConstruct(mat)
    \/ TogglePlay
    \/ ViewFrame
    \/ \E speed \in PlaySpeeds : ViewSetSpeed(speed)
    \/ \E presetName \in PresetNames : LoadPreset(presetName)
    \/ ViewGoQuiet

\* requestAnimationFrame: a requested callback is run in the end.
PlayLiveSpec == PlayInit /\ [][PlayLiveNext]_vars /\ WF_vars(ViewFrame)

----------------------------------------------------------------------------
(* Claims                                                                  *)

\* "Within tolerance": ten units of the representation.
Tol == Scale \div 100

Near(x, y) == Abs(x - y) <= Tol

NearMatrix(x, y) ==
    Near(x.a, y.a) /\ Near(x.b, y.b) /\ Near(x.c, y.c) /\ Near(x.d, y.d)

\* M.transform(v.x, v.y) is lambda * v, within tolerance.
IsEigenpair(mm, v, lambda) ==
    LET t == transform(mm, v.x, v.y)
    IN  Near(t.x, Mul(lambda, v.x)) /\ Near(t.y, Mul(lambda, v.y))

UpToSign(v, x, y) == (v.x = x /\ v.y = y) \/ (v.x = -x /\ v.y = -y)

Rotation == Matrix2D(0, -Num(1), Num(1), 0)
Scaling == Matrix2D(Num(2), 0, 0, Num(2))
Reflection == Matrix2D(Num(1), 0, 0, -Num(1))
Projection == Matrix2D(Num(1), 0, 0, 0)

\* C1: whenever getEigenvectors() returns non-null, both returned pairs are
\* eigenpairs of the matrix: M v1 = lambda1 v1 and M v2 = lambda2 v2 within
\* tolerance, diagonal matrices with a # d included.
C1_EigenpairsHold ==
    (call = "getEigenvectors" /\ ret # Null) =>
        /\ IsEigenpair(m, ret.v1, ret.lambda1)
        /\ IsEigenpair(m, ret.v2, ret.lambda2)

\* C2: whenever decompose() has left isDiagonalizable true, P D Pinv is the
\* target matrix within tolerance.
C2_PDPinvReconstructs ==
    (pc = "ready" /\ isDiagonalizable) =>
        NearMatrix(multiply(multiply(P, D), Pinv), targetMatrix)

C2_Witness ==
    /\ pc = "ready"
    /\ isDiagonalizable
    /\ targetMatrix.b # targetMatrix.c
    /\ D.a # D.d
    /\ NearMatrix(multiply(multiply(P, D), Pinv), targetMatrix)

\* C3: for every diagonalizable target matrix, the matrix getCurrentMatrix()
\* returns at progress = 1 is the target matrix within tolerance.
C3_FullProgressIsTarget ==
    (pc = "ready" /\ isDiagonalizable /\ progress = Num(1)) =>
        NearMatrix(drawn, targetMatrix)

\* C4: for the x-axis reflection {1,0,0,-1}, getEigenvectors() returns
\* lambda1 = 1, lambda2 = -1, v1 = (1,0) and v2 = (0,1), each up to sign.
C4_ReflectionAxes ==
    (call = "getEigenvectors" /\ m = Reflection) =>
        /\ ret # Null
        /\ ret.lambda1 = Num(1)
        /\ ret.lambda2 = -Num(1)
        /\ UpToSign(ret.v1, Num(1), 0)
        /\ UpToSign(ret.v2, 0, Num(1))

\* C5: for the projection {1,0,0,0}, inverse() is null and yet decompose()
\* ends with isDiagonalizable true.
C5_ProjectionDiagonalizes ==
    (pc = "ready" /\ targetMatrix = Projection) =>
        /\ inverse(targetMatrix) = Null
        /\ isDiagonalizable

\* C6 as stated: for the uniform scaling {2,0,0,2}, getEigenvectors() returns
\* non-null with lambda1 = lambda2 = 2, and the two vectors are the two axes
\* (1,0) and (0,1).
C6_ScalingBothAxes ==
    (call = "getEigenvectors" /\ m = Scaling) =>
        /\ ret # Null
        /\ ret.lambda1 = Num(2)
        /\ ret.lambda2 = Num(2)
        /\ {ret.v1, ret.v2} = {[x |-> Num(1), y |-> 0], [x |-> 0, y |-> Num(1)]}

\* C6 as amended: for the uniform scaling {2,0,0,2}, getEigenvectors() returns
\* non-null with lambda1 = lambda2 = 2, and both vectors are the fallback
\* axis (1,0).
C6_ScalingFallback ==
    (call = "getEigenvectors" /\ m = Scaling) =>
        /\ ret # Null
        /\ ret.lambda1 = Num(2)
        /\ ret.lambda2 = Num(2)
        /\ ret.v1 = [x |-> Num(1), y |-> 0]
        /\ ret.v2 = [x |-> Num(1), y |-> 0]

C6_Witness ==
    /\ call = "getEigenvectors"
    /\ m = Scaling
    /\ ret # Null
    /\ ret.v1 = ret.v2

\* C7: when eigenvalues() reports isComplex false, both imaginary parts are
\* exactly 0 and lambda1.real >= lambda2.real.
C7_RealOrdering ==
    (call = "eigenvalues" /\ ~ret.isComplex) =>
        /\ ret.lambda1.imag = 0
        /\ ret.lambda2.imag = 0
        /\ ret.lambda1.real >= ret.lambda2.real

C7_Witness ==
    /\ call = "eigenvalues"
    /\ ~ret.isComplex
    /\ ret.lambda1.real > ret.lambda2.real

\* C8: eigenvalues() reports isComplex exactly when trace^2 - 4 det < 0, and
\* then returns the conjugate pair trace/2 +- i sqrt(-disc)/2; the rotation
\* {0,-1,1,0} has trace 0, det 1, discriminant -4 and is complex.
C8_ComplexIffNegativeDiscriminant ==
    (call = "eigenvalues") =>
        LET tr == m.a + m.d
            det == Mul(m.a, m.d) - Mul(m.b, m.c)
            disc == Mul(tr, tr) - 4 * det
        IN  /\ ret.isComplex <=> (disc < 0)
            /\ ret.isComplex =>
                /\ ret.lambda1.real = Div(tr, Num(2))
                /\ ret.lambda2.real = Div(tr, Num(2))
                /\ ret.lambda1.imag = Div(Sqrt(-disc), Num(2))
                /\ ret.lambda2.imag = -Div(Sqrt(-disc), Num(2))
                /\ ret.lambda1.imag > 0
            /\ m = Rotation =>
                /\ tr = 0 /\ det = Num(1) /\ disc = -Num(4)
                /\ ret.isComplex
                /\ ret.lambda1 = [real |-> 0, imag |-> Num(1)]
                /\ ret.lambda2 = [real |-> 0, imag |-> -Num(1)]

C8_Witness ==
    /\ call = "eigenvalues"
    /\ m = Rotation
    /\ ret.isComplex

\* C9: in the real case each eigenvalue is a root of
\* lambda^2 - trace lambda + det = 0, and lambda1 + lambda2 = trace,
\* lambda1 lambda2 = det, within tolerance.
C9_CharacteristicRoots ==
    (call = "eigenvalues" /\ ~ret.isComplex) =>
        LET l1 == ret.lambda1.real
            l2 == ret.lambda2.real
            tr == m.a + m.d
            det == Mul(m.a, m.d) - Mul(m.b, m.c)
        IN  /\ Near(l1 + l2, tr)
            /\ Near(Mul(l1, l2), det)
            /\ Near(Mul(l1, l1) - Mul(tr, l1) + det, 0)
            /\ Near(Mul(l2, l2) - Mul(tr, l2) + det, 0)

C9_Witness ==
    /\ call = "eigenvalues"
    /\ ~ret.isComplex
    /\ ret.lambda1.real # ret.lambda2.real
    /\ m.b # 0
    /\ m.a + m.d # 0

\* C10: getEigenvectors() returns null exactly when eigenvalues() is complex;
\* otherwise lambda1, lambda2 are the real parts of eigenvalues(), v1 is
\* eigenvector(lambda1) and v2 is eigenvector(lambda2), lambda1 the larger.
C10_GetEigenvectorsPackaging ==
    (call = "getEigenvectors") =>
        LET ev == eigenvalues(m)
        IN  /\ (ret = Null) <=> ev.isComplex
            /\ ret # Null =>
                /\ ret.lambda1 = ev.lambda1.real
                /\ ret.lambda2 = ev.lambda2.real
                /\ ret.v1 = eigenvector(m, ev.lambda1.real)
                /\ ret.v2 = eigenvector(m, ev.lambda2.real)
                /\ ret.lambda1 >= ret.lambda2

C10_Witness ==
    /\ call = "getEigenvectors"
    /\ ret # Null
    /\ ret.lambda1 > ret.lambda2
    /\ ret.v1 # ret.v2

BuiltP(tm) ==
    LET vecs == getEigenvectors(tm)
    IN  Matrix2D(vecs.v1.x, vecs.v2.x, vecs.v1.y, vecs.v2.y)

BuiltD(tm) ==
    Matrix2D(eigenvalues(tm).lambda1.real, 0, 0, eigenvalues(tm).lambda2.real)

\* C12: decompose() ends with isDiagonalizable true exactly when the target
\* matrix has real eigenvalues and P.inverse() is non-null; then P has v1, v2
\* as columns, D is diag(lambda1, lambda2) and Pinv is P.inverse().
C12_DiagonalizableIff ==
    (pc = "ready") =>
        /\ isDiagonalizable <=>
              (/\ ~eigenvalues(targetMatrix).isComplex
               /\ inverse(BuiltP(targetMatrix)) # Null)
        /\ isDiagonalizable =>
              /\ P = BuiltP(targetMatrix)
              /\ D = BuiltD(targetMatrix)
              /\ Pinv = inverse(P)
              /\ Pinv # Null

C12_Witness ==
    /\ pc = "ready"
    /\ isDiagonalizable
    /\ P.b # P.c
    /\ D.a # D.d

\* C13: when P.inverse() returns null inside decompose(), the stager ends with
\* isDiagonalizable false and with P and D discarded: they are the identity
\* they were before the attempt, not the matrices built during it.
C13_FailedAttemptDiscarded ==
    (/\ pc = "ready"
     /\ ~eigenvalues(targetMatrix).isComplex
     /\ inverse(BuiltP(targetMatrix)) = Null) =>
        /\ ~isDiagonalizable
        /\ P = identity
        /\ D = identity

\* C14: getCurrentMatrix() returns the identity at progress 0, and at every
\* progress when isDiagonalizable is false, and never throws on a null Pinv.
C14_IdentityWhenNotDiagonalizable ==
    (pc = "ready") =>
        /\ drawn # TypeError
        /\ progress = 0 => drawn = identity
        /\ ~isDiagonalizable => drawn = identity

C14_Witness ==
    /\ pc = "ready"
    /\ ~isDiagonalizable
    /\ Pinv = Null
    /\ progress = Num(1)
    /\ drawn = identity

\* C15: for every progress in [0,1] the local parameter t handed to lerp is
\* in [0,1]; it reaches 1 at the end of each stage, and the result is Pinv at
\* progress 0.33 and Pinv.multiply(D) at progress 0.67.
C15_StagesJoin ==
    (pc = "ready" /\ isDiagonalizable) =>
        /\ 0 <= localT(progress) /\ localT(progress) <= Num(1)
        /\ progress = Div(Num(33), Num(100)) - 1 => Near(localT(progress), Num(1))
        /\ progress = Div(Num(33), Num(100)) => drawn = Pinv
        /\ progress = Div(Num(67), Num(100)) - 1 => Near(localT(progress), Num(1))
        /\ progress = Div(Num(67), Num(100)) => drawn = multiply(Pinv, D)
        /\ progress = Num(1) => localT(progress) = Num(1)

C15_Witness ==
    /\ pc = "ready"
    /\ isDiagonalizable
    /\ progress = Div(Num(67), Num(100))
    /\ drawn = multiply(Pinv, D)
    /\ drawn # Pinv

\* The phase the Step button should go to from progress prog: the smallest
\* phase point above prog + 0.01, or 0 when there is none.
PhasePoints == {phases[i] : i \in 1 .. Len(phases)}

SmallestPhaseAbove(prog) ==
    LET above == {ph \in PhasePoints : ph > prog + Div(Num(1), Num(100))}
    IN  IF above = {} THEN 0
        ELSE CHOOSE ph \in above : \A other \in above : ph <= other

\* C16: an animation stepToNextPhase() has just started (no frame has run it
\* yet) targets the smallest phase point above its start + 0.01, or 0 when
\* there is none: 0.33 from 0, 0.67 from 0.33, 1 from 0.67 and 0 from 1.
C16_NextPhaseTarget ==
    \A i \in 1 .. Len(anims) :
        (anims[i].elapsed = 0) =>
            /\ anims[i].target = SmallestPhaseAbove(anims[i].start)
            /\ anims[i].start = 0 => anims[i].target = Div(Num(33), Num(100))
            /\ anims[i].start = Div(Num(33), Num(100)) =>
                   anims[i].target = Div(Num(67), Num(100))
            /\ anims[i].start = Div(Num(67), Num(100)) => anims[i].target = Num(1)
            /\ anims[i].start = Num(1) => anims[i].target = 0

C16_Witness ==
    /\ anims # <<>>
    /\ anims[Len(anims)].elapsed = 0
    /\ anims[Len(anims)].start = Num(1)
    /\ anims[Len(anims)].target = 0
    /\ isAnimating

\* C17: once the user leaves the page alone, the animation started last
\* finishes: a frame ends with progress exactly its target and isAnimating
\* false.
C17_AnimationFinishes ==
    \A T \in PhasePoints :
        (quiet /\ anims # <<>> /\ anims[Len(anims)].target = T)
            ~> (progress = T /\ ~isAnimating)

C17_Witness ==
    /\ quiet
    /\ anims = <<>>
    /\ ~isAnimating
    /\ progress = Div(Num(67), Num(100))

\* C18: lerp(M, M, t) = M for every t, lerp(M1, M2, 0) = M1 and
\* lerp(M1, M2, 1) = M2, exactly, for all matrices.
C18_LerpExact ==
    (call = "lerp") =>
        /\ arg.m2 = m => ret = m
        /\ arg.t = 0 => ret = m
        /\ arg.t = 1 => ret = arg.m2

\* The differences m2.x - m1.x are all computed without rounding.
ExactDifferences(m1, m2) ==
    /\ Fl(m2.a - m1.a) = m2.a - m1.a
    /\ Fl(m2.b - m1.b) = m2.b - m1.b
    /\ Fl(m2.c - m1.c) = m2.c - m1.c
    /\ Fl(m2.d - m1.d) = m2.d - m1.d

\* x is y up to the rounding of a subtraction and an addition of numbers of
\* the size of p and q.
WithinRounding(x, y, p, q) == Abs(x - y) * (2 ^ Prec) <= 3 * (Abs(p) + Abs(q))

\* C18 (amended): lerp(M, M, t) = M and lerp(M1, M2, 0) = M1 exactly;
\* lerp(M1, M2, 1) = M2 exactly when no difference m2.x - m1.x is rounded,
\* and up to rounding otherwise.
C18_LerpEndpoints ==
    (call = "lerp") =>
        /\ arg.m2 = m => ret = m
        /\ arg.t = 0 => ret = m
        /\ (arg.t = 1 /\ ExactDifferences(m, arg.m2)) => ret = arg.m2
        /\ arg.t = 1 =>
              /\ WithinRounding(ret.a, arg.m2.a, m.a, arg.m2.a)
              /\ WithinRounding(ret.b, arg.m2.b, m.b, arg.m2.b)
              /\ WithinRounding(ret.c, arg.m2.c, m.c, arg.m2.c)
              /\ WithinRounding(ret.d, arg.m2.d, m.d, arg.m2.d)

C18_Witness ==
    /\ call = "lerp"
    /\ arg.t = 1
    /\ arg.m2 # m
    /\ ExactDifferences(m, arg.m2)
    /\ ret = arg.m2

\* (x, y) divided by its length.
Normalize(x, y) ==
    LET mag == Sqrt(AddInf(MulInf(x, x), MulInf(y, y)))
    IN  [x |-> Div(x, mag), y |-> Div(y, mag)]

PreNormalized(mm, lambda) ==
    IF Abs(mm.b) >= 1 THEN [x |-> -mm.b, y |-> mm.a - lambda]
    ELSE IF Abs(mm.c) >= 1 THEN [x |-> -(mm.d - lambda), y |-> mm.c]
    ELSE [x |-> Num(1), y |-> 0]

IsNumber(x) == x # NaN /\ ~IsInf(x)

UnitLength(v) == Near(Mul(v.x, v.x) + Mul(v.y, v.y), Num(1))

\* C20: for every matrix with finite entries and every lambda the vector
\* that eigenvector(lambda) normalizes is non-zero, the division is never by
\* zero and the result is a unit vector.
C20_AlwaysUnit ==
    (call = "eigenvector") =>
        /\ PreNormalized(m, arg.lambda) # [x |-> 0, y |-> 0]
        /\ IsNumber(ret.x) /\ IsNumber(ret.y)
        /\ UnitLength(ret)

\* The squares of the components of v add up to a finite number.
SquaresFinite(v) == ~IsInf(AddInf(MulInf(v.x, v.x), MulInf(v.y, v.y)))

\* C20 (amended): the vector that eigenvector(lambda) normalizes is non-zero
\* and the division is never by zero; the result is a unit vector when the
\* squares of the vector's components do not overflow.
C20_UnitUnlessOverflow ==
    (call = "eigenvector") =>
        /\ PreNormalized(m, arg.lambda) # [x |-> 0, y |-> 0]
        /\ IsNumber(ret.x) /\ IsNumber(ret.y)
        /\ SquaresFinite(PreNormalized(m, arg.lambda)) => UnitLength(ret)

C20_Witness ==
    /\ call = "eigenvector"
    /\ m = Matrix2D(0, 0, 0, 0)
    /\ arg.lambda = 0
    /\ ret = [x |-> Num(1), y |-> 0]

\* A field that is a number: a signed decimal numeral, white space around it
\* allowed, but not empty and not blank.
IsNumberField(str) ==
    LET t == trim(str)
    IN  \/ AllDigits(t)
        \/ t # <<>> /\ Head(t) = "-" /\ AllDigits(Tail(t))

WellFormed(param) ==
    /\ param.present
    /\ Len(split(param.matrixStr)) = 4
    /\ \A i \in 1 .. 4 : IsNumberField(split(param.matrixStr)[i])

\* C21: parseMatrixFromURL() returns a matrix only for four comma-separated
\* numbers; for an empty, blank or non-numeric field and for a wrong arity it
\* returns null and the stager uses the default matrix {2,1,1,2}.
C21_MalformedRejected ==
    (call = "parseMatrixFromURL") =>
        /\ ret # Null <=> WellFormed(arg)
        /\ ret # Null => targetMatrix = ret
        /\ ret = Null => targetMatrix = DefaultMatrix

\* C24: in DiagonalizationApp at most one animation loop is active: never more
\* than one animate closure is waiting for a frame.
C24_SingleLoop == Len(anims) <= 1

\* C25: in DiagonalizationApp, after reset() progress is 0 and stays 0 until
\* the next step or scrubber event, also when reset() interrupts an animation.
C25_StaysZeroAfterReset == afterReset => progress = 0

\* C28: in EigenvectorApp animationProgress stays within [0, 1].
C28_ProgressInRange == 0 <= animationProgress /\ animationProgress <= Num(1)

\* C22: in EigenvectorApp, animationProgress = 0 implies that currentMatrix is
\* the identity and animationProgress = 1 implies that currentMatrix equals
\* targetMatrix, in every reachable state.
C22_EndsOfProgress ==
    /\ animationProgress = 0 => currentMatrix = identity
    /\ animationProgress = Num(1) => currentMatrix = targetMatrix

\* C26: in EigenvectorApp, whenever isAnimating is false, currentMatrix equals
\* lerp(identity, targetMatrix, easeInOutCubic(animationProgress)).
C26_IdleMatrixCurrent ==
    ~isAnimating =>
        currentMatrix = lerp(identity, targetMatrix, easeInOutCubic(animationProgress))

\* C27: in EigenvectorApp at most one requested animate() callback is waiting
\* for a frame at any time.
C27_SingleCallback == Len(frames) <= 1

C28_Witness ==
    /\ pc = "view"
    /\ animationProgress = Num(1)
    /\ ~isAnimating
    /\ animationSpeed = Num(3)
    /\ Len(eigenTrails[1]) = maxTrailLength

C30_CardConsistent ==
    (card # Null /\ card.eigen # Null) =>
        card.det = Mul(card.eigen.lambda1, card.eigen.lambda2)

=============================================================================
